---- MODULE Spec2Model ----
(***************************************************************************)
(* Lifecycle model of the inbucket daemon: main() of cmd/inbucket (signal  *)
(* loop, drain, forced-exit watchdog) and the POP3 listener of             *)
(* pkg/server/pop3 (Start, serve, emergencyShutdown, Drain).               *)
(*                                                                         *)
(* Every goroutine is a process with a program counter.  One action is one *)
(* step of one goroutine between two accesses to shared state (the         *)
(* shutdown channel, the root context, the listener socket, a wait-group). *)
(* The SMTP servers, the POP3 session and the retention scanner are code   *)
(* of the repository that is not part of the sources at hand; they are     *)
(* modelled from the specification (sections 4.3 and 4.6).                 *)
(***************************************************************************)
EXTENDS Integers, Sequences, FiniteSets, TLC

\* ------------------------------------------------------------------ bounds

\* Number of connections, over all POP3 listeners, that clients open.
MaxAccepts == 1
\* Number of temporary Accept errors, over all POP3 listeners.
MaxTempErrors == 1
\* The same bound in the backoff specification, where one listener sees a long
\* run of consecutive temporary errors.
MaxBackoffErrors == 10
\* Number of SIGINT/SIGTERM signals the environment sends.
MaxSignals == 1
\* Largest number of concurrently open SMTP sessions per SMTP listener.
MaxSmtpSessions == 1
\* Largest raw message, in bytes.
MaxMessageSize == 2
\* Largest clock value at which a message arrives.
MaxClock == 2

\* ------------------------------------------------------- program constants

\* time.Duration counts nanoseconds.
Millisecond == 1000000
Second == 1000000000

\* The two address types main starts a server for.
AddrTypes == {"tcp4", "tcp6"}
Signals == {"SIGINT", "SIGTERM"}

VARIABLES
    conf,           \* configuration: [pop3, smtp : SUBSET AddrTypes], the servers main starts
    accepts,        \* connections that clients will still open
    tempErrors,     \* temporary Accept errors that will still occur
    proc,           \* "running", or how the process ended
    pidfile,        \* the pidfile on disk: "absent", "written" or "removed"
    mainPc,         \* position of main()
    drainIdx,       \* position of main in DrainOrder while mainPc = "drain"
    sigChan,        \* sigChan: buffered channel of capacity 1
    sigsSent,       \* number of signals the environment has sent
    shutdownClosed, \* shutdownChan has been closed
    closer,         \* who closed shutdownChan ("none" while it is open)
    ctxDone,        \* rootCtx has been cancelled
    timedExitPc,    \* position of the timedExit goroutine
    scannerPc,      \* position of the retention scanner
    startPc,        \* per POP3 server: position of its Start goroutine
    servePc,        \* per POP3 server: position of its serve goroutine
    listener,       \* per POP3 server: state of s.listener
    tempDelay,      \* per POP3 server: serve's tempDelay, in nanoseconds
    sid,            \* per POP3 server: serve's loop variable sid
    wg,             \* per POP3 server: counter of s.wg
    sessions,       \* per POP3 server: ids of the running session goroutines
    smtpWg,         \* per SMTP server: counter of its wait-group (= its open sessions)
    sigsSeen,       \* history: signals main has taken from sigChan
    atSignal,       \* history, per POP3 server: the sessions that were running when
                    \* main first took a signal and still are
    tempRun,        \* history, per POP3 server: consecutive temporary errors so far
    msg,            \* the raw message handed to ParseDelivery, NoMessage when there is none
    now,            \* the clock: the value of time.Now()
    consumed,       \* bytes ParseDelivery's reader has given out so far
    delivery,       \* what ParseDelivery has produced, NotParsed before the call
    source          \* what a read of the Source() stream to its end has yielded

mainVars == <<proc, pidfile, mainPc, drainIdx, sigChan, sigsSent, shutdownClosed, closer,
              ctxDone, timedExitPc, scannerPc>>
pop3Vars == <<startPc, servePc, listener, tempDelay, sid, wg, sessions>>
histVars == <<sigsSeen, atSignal, tempRun>>
deliveryVars == <<msg, now, consumed, delivery, source>>
envVars == <<conf, accepts, tempErrors, deliveryVars>>
vars == <<envVars, mainVars, pop3Vars, smtpWg, histVars>>

\* ServerTuple fields in the order main drains them: smtpServerTuple.Drain()
\* (v4, v6) and then pop3ServerTuple.Drain() (v4, v6).
DrainOrder == << <<"smtp", "tcp4">>, <<"smtp", "tcp6">>,
                 <<"pop3", "tcp4">>, <<"pop3", "tcp6">> >>

Running == proc = "running"

\* The exit code of a finished process: os.Exit(1) on a configuration, log or
\* storage error, 2 for a Go panic, 0 for main returning and for timedExit.
ExitCode == CASE proc \in {"configError", "logError", "fatal"} -> 1
              [] proc = "panic" -> 2
              [] OTHER -> 0

\* The configurations followed: both POP3 servers; one POP3 server beside both
\* SMTP servers, with a pidfile; one of each; and no server at all.
Configs ==
    { [pop3 |-> AddrTypes, smtp |-> {}, pidfile |-> FALSE],
      [pop3 |-> {"tcp4"}, smtp |-> AddrTypes, pidfile |-> TRUE],
      [pop3 |-> {"tcp6"}, smtp |-> {"tcp4"}, pidfile |-> TRUE],
      [pop3 |-> {}, smtp |-> {}, pidfile |-> FALSE] }

InitWith(c, nAccepts, nTempErrors) ==
    /\ conf = c
    /\ accepts = nAccepts
    /\ tempErrors = nTempErrors
    /\ proc = "running"
    /\ pidfile = "absent"
    /\ mainPc = "config"
    /\ drainIdx = 1
    /\ sigChan = <<>>
    /\ sigsSent = 0
    /\ shutdownClosed = FALSE
    /\ closer = "none"
    /\ ctxDone = FALSE
    /\ timedExitPc = "none"
    /\ scannerPc = "none"
    /\ startPc = [a \in AddrTypes |-> "none"]
    /\ servePc = [a \in AddrTypes |-> "none"]
    /\ listener = [a \in AddrTypes |-> "nil"]
    /\ tempDelay = [a \in AddrTypes |-> 0]
    /\ sid = [a \in AddrTypes |-> 1]
    /\ wg = [a \in AddrTypes |-> 0]
    /\ sessions = [a \in AddrTypes |-> {}]
    /\ smtpWg = [a \in AddrTypes |-> 0]
    /\ sigsSeen = 0
    /\ atSignal = [a \in AddrTypes |-> {}]
    /\ tempRun = [a \in AddrTypes |-> 0]

\* The values of msg and delivery when there is no message and no result.
NoMessage == [envelope |-> "none"]
NotParsed == [tag |-> "none"]
\* The value of source while the stream of Source() has not been read.
NotRead == [done |-> FALSE, bytes |-> <<>>]

\* No message is being delivered.
NoDelivery ==
    /\ msg = NoMessage
    /\ now = 0
    /\ consumed = 0
    /\ delivery = NotParsed
    /\ source = NotRead

Init == NoDelivery /\ \E c \in Configs : InitWith(c, MaxAccepts, MaxTempErrors)

\* ------------------------------------------------------------- main: startup

\* conf, err := config.Process(); a configuration error ends in os.Exit(1).
MainConfig ==
    /\ Running /\ mainPc = "config"
    /\ \E ok \in BOOLEAN :
          IF ok THEN mainPc' = "openLog" /\ proc' = proc
                ELSE mainPc' = mainPc /\ proc' = "configError"
    /\ UNCHANGED <<envVars, pidfile, drainIdx, sigChan, sigsSent, shutdownClosed,
                   closer, ctxDone, timedExitPc, scannerPc, pop3Vars, smtpWg, histVars>>

\* closeLog, err := openLog(...); then signal.Notify(sigChan, SIGTERM, SIGINT).
MainOpenLog ==
    /\ Running /\ mainPc = "openLog"
    /\ \E ok \in BOOLEAN :
          IF ok THEN mainPc' = "pidfile" /\ proc' = proc
                ELSE mainPc' = mainPc /\ proc' = "logError"
    /\ UNCHANGED <<envVars, pidfile, drainIdx, sigChan, sigsSent, shutdownClosed,
                   closer, ctxDone, timedExitPc, scannerPc, pop3Vars, smtpWg, histVars>>

\* Write pidfile if requested; a failure to create or close it is Fatal.
MainPidfile ==
    /\ Running /\ mainPc = "pidfile"
    /\ \/ /\ ~conf.pidfile
          /\ mainPc' = "storage" /\ UNCHANGED <<proc, pidfile>>
       \/ /\ conf.pidfile
          /\ \E ok \in BOOLEAN :
                IF ok THEN mainPc' = "storage" /\ pidfile' = "written" /\ proc' = proc
                      ELSE mainPc' = mainPc /\ pidfile' = pidfile /\ proc' = "fatal"
    /\ UNCHANGED <<envVars, drainIdx, sigChan, sigsSent, shutdownClosed,
                   closer, ctxDone, timedExitPc, scannerPc, pop3Vars, smtpWg, histVars>>

\* removePIDFile: removes the PID file if created.
removePIDFile == IF conf.pidfile THEN "removed" ELSE pidfile

\* rootCtx, shutdownChan, store, err := storage.FromConfig(conf.Storage); on an
\* error removePIDFile and Fatal.  Then msgHub, addrPolicy, mmanager.
MainStorage ==
    /\ Running /\ mainPc = "storage"
    /\ \E ok \in BOOLEAN :
          IF ok THEN mainPc' = "scanner" /\ UNCHANGED <<proc, pidfile>>
                ELSE mainPc' = mainPc /\ pidfile' = removePIDFile /\ proc' = "fatal"
    /\ UNCHANGED <<envVars, drainIdx, sigChan, sigsSent, shutdownClosed,
                   closer, ctxDone, timedExitPc, scannerPc, pop3Vars, smtpWg, histVars>>

\* retentionScanner := storage.NewRetentionScanner(...); retentionScanner.Start()
MainScanner ==
    /\ Running /\ mainPc = "scanner"
    /\ mainPc' = "servers"
    /\ scannerPc' = "running"
    /\ UNCHANGED <<envVars, proc, pidfile, drainIdx, sigChan, sigsSent,
                   shutdownClosed, closer, ctxDone, timedExitPc, pop3Vars, smtpWg, histVars>>

\* pop3.New and go pop3ServerTuple.v4/v6.Start(rootCtx) for the configured
\* addresses, then the same for smtpServerTuple.
MainStartServers ==
    /\ Running /\ mainPc = "servers"
    /\ mainPc' = "signalLoop"
    /\ startPc' = [a \in AddrTypes |-> IF a \in conf.pop3 THEN "listen" ELSE "none"]
    /\ UNCHANGED <<envVars, proc, pidfile, drainIdx, sigChan, sigsSent,
                   shutdownClosed, closer, ctxDone, timedExitPc, scannerPc,
                   servePc, listener, tempDelay, sid, wg, sessions, smtpWg, histVars>>

\* -------------------------------------------------------- main: signal loop

\* The operating system delivers SIGINT or SIGTERM.  signal.Notify sends without
\* blocking: the signal is dropped when sigChan (capacity 1) is full.  Before
\* signal.Notify no signal is followed.
Signal(s) ==
    /\ Running /\ mainPc \notin {"config", "openLog"}
    /\ sigsSent < MaxSignals
    /\ sigsSent' = sigsSent + 1
    /\ sigChan' = IF Len(sigChan) < 1 THEN Append(sigChan, s) ELSE sigChan
    /\ UNCHANGED <<envVars, proc, pidfile, mainPc, drainIdx, shutdownClosed,
                   closer, ctxDone, timedExitPc, scannerPc, pop3Vars, smtpWg, histVars>>

\* close(shutdownChan) by `who`: closing a closed channel is a run-time panic,
\* which ends the process.
closeShutdown(who) ==
    IF shutdownClosed
      THEN proc' = "panic" /\ UNCHANGED <<shutdownClosed, closer>>
      ELSE shutdownClosed' = TRUE /\ closer' = who /\ proc' = proc

\* case sig := <-sigChan: both SIGINT and SIGTERM do close(shutdownChan), with
\* no guard: closing a closed channel panics.
MainSignal ==
    /\ Running /\ mainPc = "signalLoop"
    /\ sigChan # <<>>
    /\ Head(sigChan) \in Signals
    /\ sigChan' = Tail(sigChan)
    /\ sigsSeen' = sigsSeen + 1
    /\ atSignal' = IF sigsSeen = 0 THEN sessions ELSE atSignal
    /\ closeShutdown("main")
    /\ UNCHANGED <<envVars, pidfile, mainPc, drainIdx, sigsSent, ctxDone,
                   timedExitPc, scannerPc, pop3Vars, smtpWg, tempRun>>

\* The shutdown case without rootCancel(): main only leaves the signal loop.
MainShutdownNoCancel ==
    /\ Running /\ mainPc = "signalLoop"
    /\ shutdownClosed
    /\ mainPc' = "timedExit"
    /\ UNCHANGED <<envVars, proc, pidfile, drainIdx, sigChan, sigsSent,
                   shutdownClosed, closer, ctxDone, timedExitPc, scannerPc, pop3Vars,
                   smtpWg, histVars>>

\* case <-shutdownChan: rootCancel(); break signalLoop
MainShutdown ==
    /\ Running /\ mainPc = "signalLoop"
    /\ shutdownClosed
    /\ ctxDone' = TRUE
    /\ mainPc' = "timedExit"
    /\ UNCHANGED <<envVars, proc, pidfile, drainIdx, sigChan, sigsSent,
                   shutdownClosed, closer, timedExitPc, scannerPc, pop3Vars, smtpWg,
                   histVars>>

\* ------------------------------------------------------------- main: drain

\* go timedExit(*pidfile)
MainGoTimedExit ==
    /\ Running /\ mainPc = "timedExit"
    /\ timedExitPc' = "sleep"
    /\ mainPc' = "drain"
    /\ UNCHANGED <<envVars, proc, pidfile, drainIdx, sigChan, sigsSent,
                   shutdownClosed, closer, ctxDone, scannerPc, pop3Vars, smtpWg, histVars>>

\* Server.Drain of the POP3 server: s.wg.Wait() returns when the counter is zero.
Drain(a) == wg[a] = 0

\* Drain of an SMTP server: blocks on its wait-group.
SmtpDrain(a) == smtpWg[a] = 0

\* ServerTuple.Drain, one field at a time: a nil field is skipped, otherwise
\* main blocks in the field's Drain().  After the last field main goes on to
\* retentionScanner.Join().
MainDrain ==
    /\ Running /\ mainPc = "drain"
    /\ LET kind == DrainOrder[drainIdx][1]
           a == DrainOrder[drainIdx][2]
       IN  /\ a \in conf[kind] => IF kind = "pop3" THEN Drain(a) ELSE SmtpDrain(a)
    /\ IF drainIdx < Len(DrainOrder)
          THEN drainIdx' = drainIdx + 1 /\ mainPc' = mainPc
          ELSE drainIdx' = drainIdx /\ mainPc' = "join"
    /\ UNCHANGED <<envVars, proc, pidfile, sigChan, sigsSent, shutdownClosed,
                   closer, ctxDone, timedExitPc, scannerPc, pop3Vars, smtpWg, histVars>>

\* The retention scanner's Join: the scanner stops once the shutdown channel
\* is closed, and Join returns when it has stopped.
Join ==
    /\ scannerPc = "running" /\ shutdownClosed
    /\ scannerPc' = "done"

\* retentionScanner.Join()
MainJoin ==
    /\ Running /\ mainPc = "join"
    /\ Join
    /\ mainPc' = "cleanup"
    /\ UNCHANGED <<envVars, proc, pidfile, drainIdx, sigChan, sigsSent,
                   shutdownClosed, closer, ctxDone, timedExitPc, pop3Vars,
                   smtpWg, histVars>>

\* removePIDFile(*pidfile); closeLog(); main returns and the process exits.
MainReturn ==
    /\ Running /\ mainPc = "cleanup"
    /\ pidfile' = removePIDFile
    /\ mainPc' = "done"
    /\ proc' = "returned"
    /\ UNCHANGED <<envVars, drainIdx, sigChan, sigsSent, shutdownClosed,
                   closer, ctxDone, timedExitPc, scannerPc, pop3Vars, smtpWg, histVars>>

\* timedExit without its os.Exit(0): the goroutine removes the pidfile and returns.
TimedExitReturns ==
    /\ Running /\ timedExitPc = "sleep"
    /\ timedExitPc' = "done"
    /\ pidfile' = removePIDFile
    /\ UNCHANGED <<envVars, proc, mainPc, drainIdx, sigChan, sigsSent, shutdownClosed,
                   closer, ctxDone, scannerPc, pop3Vars, smtpWg, histVars>>

\* timedExit: time.Sleep(15 * time.Second) is over; removePIDFile; os.Exit(0).
TimedExit ==
    /\ Running /\ timedExitPc = "sleep"
    /\ timedExitPc' = "done"
    /\ pidfile' = removePIDFile
    /\ proc' = "timedExit"
    /\ UNCHANGED <<envVars, mainPc, drainIdx, sigChan, sigsSent, shutdownClosed,
                   closer, ctxDone, scannerPc, pop3Vars, smtpWg, histVars>>

\* --------------------------------------------------- POP3: emergencyShutdown

\* emergencyShutdown without the select: it always goes on to close.
emergencyCloseAlways == "closeShutdown"

\* emergencyShutdown, first step: select { case <-s.globalShutdown: default: }.
\* The result is the caller's next position: it returns when the channel is
\* closed and goes on to close(s.globalShutdown) otherwise.
emergencySelect == IF shutdownClosed THEN "done" ELSE "closeShutdown"

\* ------------------------------------------------------------ POP3: Start

\* Start with go s.serve(ctx) ahead of the error checks: the accept loop is
\* started whether or not the bind succeeded.
StartListenServes(a) ==
    /\ Running /\ startPc[a] = "listen"
    /\ servePc' = [servePc EXCEPT ![a] = "accept"]
    /\ \E result \in {"ok", "resolveError", "listenError"} :
          IF result = "ok"
            THEN /\ listener' = [listener EXCEPT ![a] = "open"]
                 /\ startPc' = [startPc EXCEPT ![a] = "wait"]
            ELSE /\ startPc' = [startPc EXCEPT ![a] = "emergencyShutdown"]
                 /\ UNCHANGED listener
    /\ UNCHANGED <<envVars, mainVars, tempDelay, sid, wg, sessions, smtpWg,
                   histVars>>

\* addr, err := net.ResolveTCPAddr(...) and s.listener, err = net.ListenTCP(...):
\* on either error emergencyShutdown and return; otherwise go s.serve(ctx) and
\* wait for ctx.Done().
StartListen(a) ==
    /\ Running /\ startPc[a] = "listen"
    /\ \E result \in {"ok", "resolveError", "listenError"} :
          IF result = "ok"
            THEN /\ listener' = [listener EXCEPT ![a] = "open"]
                 /\ servePc' = [servePc EXCEPT ![a] = "accept"]
                 /\ startPc' = [startPc EXCEPT ![a] = "wait"]
            ELSE /\ startPc' = [startPc EXCEPT ![a] = "emergencyShutdown"]
                 /\ UNCHANGED <<listener, servePc>>
    /\ UNCHANGED <<envVars, mainVars, tempDelay, sid, wg, sessions, smtpWg,
                   histVars>>

\* Start returning on ctx.Done() without s.listener.Close().
StartNoClose(a) ==
    /\ Running /\ startPc[a] = "wait"
    /\ ctxDone
    /\ startPc' = [startPc EXCEPT ![a] = "done"]
    /\ UNCHANGED <<envVars, mainVars, servePc, listener, tempDelay, sid, wg, sessions,
                   smtpWg, histVars>>

\* Start closing the listener without waiting for ctx.Done().
StartCloseEarly(a) ==
    /\ Running /\ startPc[a] = "wait"
    /\ listener' = [listener EXCEPT ![a] = "closed"]
    /\ startPc' = [startPc EXCEPT ![a] = "done"]
    /\ UNCHANGED <<envVars, mainVars, servePc, tempDelay, sid, wg, sessions,
                   smtpWg, histVars>>

\* select { case <-ctx.Done(): }; then s.listener.Close(), and Start returns.
StartClose(a) ==
    /\ Running /\ startPc[a] = "wait"
    /\ ctxDone
    /\ listener' = [listener EXCEPT ![a] = "closed"]
    /\ startPc' = [startPc EXCEPT ![a] = "done"]
    /\ UNCHANGED <<envVars, mainVars, servePc, tempDelay, sid, wg, sessions,
                   smtpWg, histVars>>

\* Start inside emergencyShutdown: the select on s.globalShutdown.
StartEmergencySelect(a) ==
    /\ Running /\ startPc[a] = "emergencyShutdown"
    /\ startPc' = [startPc EXCEPT ![a] = emergencySelect]
    /\ UNCHANGED <<envVars, mainVars, servePc, listener, tempDelay, sid, wg,
                   sessions, smtpWg, histVars>>

\* Start inside emergencyShutdown: default: close(s.globalShutdown); return.
StartEmergencyClose(a) ==
    /\ Running /\ startPc[a] = "closeShutdown"
    /\ closeShutdown(a)
    /\ startPc' = [startPc EXCEPT ![a] = "done"]
    /\ UNCHANGED <<envVars, pidfile, mainPc, drainIdx, sigChan, sigsSent, ctxDone,
                   timedExitPc, scannerPc, servePc, listener, tempDelay, sid, wg,
                   sessions, smtpWg, histVars>>

\* ------------------------------------------------------------ POP3: serve

\* The retry delay with the cap at 2 s instead of 1 s.
NextDelayLateCap(d) ==
    LET doubled == IF d = 0 THEN 5 * Millisecond ELSE d * 2
        max == 2 * Second
    IN  IF doubled > max THEN max ELSE doubled

\* The retry delay after one more temporary Accept error: 5 ms at first, then
\* doubled, and never more than 1 s.
NextDelay(d) ==
    LET doubled == IF d = 0 THEN 5 * Millisecond ELSE d * 2
        max == 1 * Second
    IN  IF doubled > max THEN max ELSE doubled

\* Main has returned from the Drain() of the POP3 server for address type a.
Drained(a) ==
    \/ mainPc \in {"join", "cleanup", "done"}
    \/ /\ mainPc = "drain"
       /\ \E i \in 1..(drainIdx - 1) : DrainOrder[i] = <<"pop3", a>>

\* A successful Accept without s.wg.Add(1).
ServeAcceptConnNoAdd(a) ==
    /\ Running /\ servePc[a] = "accept"
    /\ listener[a] = "open"
    /\ accepts > 0
    /\ accepts' = accepts - 1
    /\ tempDelay' = [tempDelay EXCEPT ![a] = 0]
    /\ tempRun' = [tempRun EXCEPT ![a] = 0]
    /\ servePc' = [servePc EXCEPT ![a] = "startSession"]
    /\ UNCHANGED <<conf, tempErrors, deliveryVars, mainVars, startPc, listener, sid, wg, sessions,
                   smtpWg, sigsSeen, atSignal>>

\* s.listener.Accept() returns a connection: tempDelay = 0; s.wg.Add(1).
ServeAcceptConn(a) ==
    /\ Running /\ servePc[a] = "accept"
    /\ listener[a] = "open"
    /\ accepts > 0
    /\ accepts' = accepts - 1
    /\ tempDelay' = [tempDelay EXCEPT ![a] = 0]
    /\ tempRun' = [tempRun EXCEPT ![a] = 0]
    /\ wg' = [wg EXCEPT ![a] = @ + 1]
    /\ servePc' = [servePc EXCEPT ![a] = "startSession"]
    /\ UNCHANGED <<conf, tempErrors, deliveryVars, mainVars, startPc, listener, sid, sessions, smtpWg,
                   sigsSeen, atSignal>>

\* go s.startSession(sid, conn); sid++ and back to Accept.
ServeStartSession(a) ==
    /\ Running /\ servePc[a] = "startSession"
    /\ sessions' = [sessions EXCEPT ![a] = @ \cup {sid[a]}]
    /\ sid' = [sid EXCEPT ![a] = @ + 1]
    /\ servePc' = [servePc EXCEPT ![a] = "accept"]
    /\ UNCHANGED <<envVars, mainVars, startPc, listener, tempDelay, wg, smtpWg,
                   histVars>>

\* A temporary Accept error treated like a permanent one: the loop leaves
\* Accept for the permanent-error branch.
ServeAcceptTemporaryFatal(a) ==
    /\ Running /\ servePc[a] = "accept"
    /\ listener[a] = "open"
    /\ tempErrors > 0
    /\ tempErrors' = tempErrors - 1
    /\ tempRun' = [tempRun EXCEPT ![a] = @ + 1]
    /\ servePc' = [servePc EXCEPT ![a] = "permanent"]
    /\ UNCHANGED <<conf, accepts, deliveryVars, mainVars, startPc, listener, tempDelay, sid,
                   wg, sessions, smtpWg, sigsSeen, atSignal>>

\* Accept returns a temporary net.Error: tempDelay is raised, the loop sleeps
\* for time.Sleep(tempDelay), and continues: sid++ and back to Accept.
ServeAcceptTemporary(a) ==
    /\ Running /\ servePc[a] = "accept"
    /\ listener[a] = "open"
    /\ tempErrors > 0
    /\ tempErrors' = tempErrors - 1
    /\ tempDelay' = [tempDelay EXCEPT ![a] = NextDelay(@)]
    /\ tempRun' = [tempRun EXCEPT ![a] = @ + 1]
    /\ sid' = [sid EXCEPT ![a] = @ + 1]
    /\ UNCHANGED <<conf, accepts, deliveryVars, mainVars, startPc, servePc, listener, wg, sessions,
                   smtpWg, sigsSeen, atSignal>>

\* Accept fails because s.listener has been closed: the error is not temporary.
ServeAcceptClosed(a) ==
    /\ Running /\ servePc[a] = "accept"
    /\ listener[a] = "closed"
    /\ servePc' = [servePc EXCEPT ![a] = "permanent"]
    /\ UNCHANGED <<envVars, mainVars, startPc, listener, tempDelay, sid, wg,
                   sessions, smtpWg, histVars>>

\* Accept on the open listener returns an error that is not temporary (a
\* failure of the socket), which can happen at any time.
ServeAcceptPermanent(a) ==
    /\ Running /\ servePc[a] = "accept"
    /\ listener[a] = "open"
    /\ servePc' = [servePc EXCEPT ![a] = "permanent"]
    /\ UNCHANGED <<envVars, mainVars, startPc, listener, tempDelay, sid, wg,
                   sessions, smtpWg, histVars>>

\* The permanent-error branch without the select on ctx.Done(): every permanent
\* error triggers emergencyShutdown.
ServePermanentNoCtx(a) ==
    /\ Running /\ servePc[a] = "permanent"
    /\ servePc' = [servePc EXCEPT ![a] = "emergencyShutdown"]
    /\ UNCHANGED <<envVars, mainVars, startPc, listener, tempDelay, sid, wg,
                   sessions, smtpWg, histVars>>

\* Permanent error: select { case <-ctx.Done(): return; default:
\* s.emergencyShutdown(); return }.
ServePermanent(a) ==
    /\ Running /\ servePc[a] = "permanent"
    /\ servePc' = [servePc EXCEPT ![a] = IF ctxDone THEN "returned" ELSE "emergencyShutdown"]
    /\ UNCHANGED <<envVars, mainVars, startPc, listener, tempDelay, sid, wg,
                   sessions, smtpWg, histVars>>

\* serve inside emergencyShutdown: the select on s.globalShutdown.
ServeEmergencySelect(a) ==
    /\ Running /\ servePc[a] = "emergencyShutdown"
    /\ servePc' = [servePc EXCEPT ![a] = emergencySelect]
    /\ UNCHANGED <<envVars, mainVars, startPc, listener, tempDelay, sid, wg,
                   sessions, smtpWg, histVars>>

\* serve inside emergencyShutdown: default: close(s.globalShutdown); return.
ServeEmergencyClose(a) ==
    /\ Running /\ servePc[a] = "closeShutdown"
    /\ closeShutdown(a)
    /\ servePc' = [servePc EXCEPT ![a] = "done"]
    /\ UNCHANGED <<envVars, pidfile, mainPc, drainIdx, sigChan, sigsSent, ctxDone,
                   timedExitPc, scannerPc, startPc, listener, tempDelay, sid, wg,
                   sessions, smtpWg, histVars>>

\* ------------------------------------- sessions and SMTP (from the spec)

\* A POP3 session ends: "each session decrements on exit".
SessionExit(a, n) ==
    /\ Running /\ n \in sessions[a]
    /\ sessions' = [sessions EXCEPT ![a] = @ \ {n}]
    /\ wg' = [wg EXCEPT ![a] = @ - 1]
    /\ atSignal' = [atSignal EXCEPT ![a] = @ \ {n}]
    /\ UNCHANGED <<envVars, mainVars, startPc, servePc, listener, tempDelay, sid,
                   smtpWg, sigsSeen, tempRun>>

\* An SMTP listener accepts a connection: "each accepted connection increments
\* the listener's wait-group"; "on ctx cancellation, the listener closes its
\* accept socket".
SmtpAccept(a) ==
    /\ Running /\ a \in conf.smtp
    /\ mainPc \notin {"config", "openLog", "pidfile", "storage", "scanner", "servers"}
    /\ ~ctxDone
    /\ smtpWg[a] < MaxSmtpSessions
    /\ smtpWg' = [smtpWg EXCEPT ![a] = @ + 1]
    /\ UNCHANGED <<envVars, mainVars, pop3Vars, histVars>>

\* An SMTP session ends: "each session decrements on exit".
SmtpSessionExit(a) ==
    /\ Running /\ smtpWg[a] > 0
    /\ smtpWg' = [smtpWg EXCEPT ![a] = @ - 1]
    /\ UNCHANGED <<envVars, mainVars, pop3Vars, histVars>>

\* ---------------------------------------------------- message: ParseDelivery

\* The addresses that occur in the From and To headers.
Addresses == {"alice@example.com", "bob@example.com"}

\* The value of an address header: absent, present but not parsable as an
\* address list, or a list of one or two addresses.
AddressHeaders ==
    {[kind |-> k, list |-> <<>>] : k \in {"absent", "malformed"}}
        \cup {[kind |-> "ok", list |-> l] :
                 l \in {<<x>> : x \in Addresses} \cup (Addresses \X Addresses)}

\* A raw message as ParseDelivery's reader holds it: whether the envelope can
\* be read from it at all, its From, To, Subject and Date headers, and its
\* length in bytes.
Messages ==
    [ envelope : {"ok", "unreadable"},
      from : AddressHeaders,
      to : AddressHeaders,
      subject : {"absent", "hi"},
      date : {"absent", "Mon, 02 Jan 2006 15:04:05 -0700"},
      size : 1..MaxMessageSize ]

\* env.AddressList(key): the parsed list, or nil with an error when the header
\* is absent or cannot be parsed.
AddressList(header) == IF header.kind = "ok" THEN header.list ELSE <<>>

\* env.GetHeader(key): the value, "" when the header is absent.
GetHeader(header) == IF header = "absent" THEN "" ELSE header

\* The time a Date header stands for, on the scale of the clock: the header's
\* date lies before every clock value at which a message arrives.
ParseDate(header) == 0

\* ParseDelivery taking the Date from the message's Date header when there is one.
ParseDeliveryHeaderDate(m, mailbox, t) ==
    IF m.envelope # "ok" THEN [tag |-> "error"]
    ELSE LET fromaddr == AddressList(m.from)
             toaddr == AddressList(m.to)
         IN  IF Len(fromaddr) = 0 THEN [tag |-> "panic"]
             ELSE [ tag |-> "ok",
                    Meta |-> [ Mailbox |-> mailbox,
                               ID |-> "",
                               From |-> fromaddr[1],
                               To |-> toaddr,
                               Date |-> IF m.date = "absent" THEN t ELSE ParseDate(m.date),
                               Subject |-> GetHeader(m.subject),
                               Size |-> 0,
                               Seen |-> FALSE ] ]

\* ParseDelivery(reader, mailbox) at clock value t: an error when
\* enmime.ReadEnvelope fails; otherwise the errors of AddressList are dropped
\* and fromaddr[0] is taken, which panics on the nil list; otherwise a
\* Delivery whose Meta leaves ID, Size and Seen at their zero values.
ParseDelivery(m, mailbox, t) ==
    IF m.envelope # "ok" THEN [tag |-> "error"]
    ELSE LET fromaddr == AddressList(m.from)
             toaddr == AddressList(m.to)
         IN  IF Len(fromaddr) = 0 THEN [tag |-> "panic"]
             ELSE [ tag |-> "ok",
                    Meta |-> [ Mailbox |-> mailbox,
                               ID |-> "",
                               From |-> fromaddr[1],
                               To |-> toaddr,
                               Date |-> t,
                               Subject |-> GetHeader(m.subject),
                               Size |-> 0,
                               Seen |-> FALSE ] ]

\* A delivery calls ParseDelivery on the message; enmime.ReadEnvelope reads the
\* reader to its end.
ParseDeliveryCall(mailbox) ==
    /\ msg # NoMessage /\ delivery = NotParsed
    /\ delivery' = ParseDelivery(msg, mailbox, now)
    /\ consumed' = msg.size
    /\ UNCHANGED <<conf, accepts, tempErrors, msg, now, source, mainVars, pop3Vars,
                   smtpWg, histVars>>

\* The raw bytes of a message, each byte standing for its offset.
RawBytes(m) == [i \in 1..m.size |-> i]

\* Delivery.Size(): the Size field of the metadata.
Size(d) == d.Meta.Size

\* Delivery.Source(): a stream over d.Reader, the reader ParseDelivery was
\* given, at the position where that reader stands.  The value is what reading
\* the stream to its end yields.
Source(d) == SubSeq(RawBytes(msg), consumed + 1, msg.size)

\* An observer of the Delivery reads the stream of Source() to its end.
SourceRead ==
    /\ delivery.tag = "ok" /\ ~source.done
    /\ source' = [done |-> TRUE, bytes |-> Source(delivery)]
    /\ consumed' = msg.size
    /\ UNCHANGED <<conf, accepts, tempErrors, msg, now, delivery, mainVars, pop3Vars,
                   smtpWg, histVars>>

\* ------------------------------------------------------------ specification

Next ==
    \/ MainConfig
    \/ MainOpenLog
    \/ MainPidfile
    \/ MainStorage
    \/ MainScanner
    \/ MainStartServers
    \/ \E s \in Signals : Signal(s)
    \/ MainSignal
    \/ MainShutdown
    \/ MainGoTimedExit
    \/ MainDrain
    \/ MainJoin
    \/ MainReturn
    \/ TimedExit
    \/ \E a \in AddrTypes : StartListen(a)
    \/ \E a \in AddrTypes : StartClose(a)
    \/ \E a \in AddrTypes : StartEmergencySelect(a)
    \/ \E a \in AddrTypes : StartEmergencyClose(a)
    \/ \E a \in AddrTypes : ServeAcceptConn(a)
    \/ \E a \in AddrTypes : ServeStartSession(a)
    \/ \E a \in AddrTypes : ServeAcceptTemporary(a)
    \/ \E a \in AddrTypes : ServeAcceptClosed(a)
    \/ \E a \in AddrTypes : ServeAcceptPermanent(a)
    \/ \E a \in AddrTypes : ServePermanent(a)
    \/ \E a \in AddrTypes : ServeEmergencySelect(a)
    \/ \E a \in AddrTypes : ServeEmergencyClose(a)
    \/ \E a \in AddrTypes : \E n \in sessions[a] : SessionExit(a, n)
    \/ \E a \in AddrTypes : SmtpAccept(a)
    \/ \E a \in AddrTypes : SmtpSessionExit(a)

Spec == Init /\ [][Next]_vars

\* The watchdog's scheduling: once main has left the signal loop it starts
\* timedExit, and the sleeping timedExit goroutine wakes up and runs.
FairSpec == Spec /\ WF_vars(MainGoTimedExit) /\ WF_vars(TimedExit)

\* The listener goroutines' scheduling: a Start goroutine woken by ctx.Done()
\* runs, an Accept on a closed listener returns, and a serve goroutine that is
\* not blocked in Accept runs.  Nothing is assumed about main, the watchdog,
\* the clients or the sessions.
ListenerFairSpec ==
    /\ Spec
    /\ \A a \in AddrTypes :
          /\ WF_vars(StartClose(a))
          /\ WF_vars(ServeAcceptClosed(a))
          /\ WF_vars(ServeStartSession(a))
          /\ WF_vars(ServePermanent(a))
          /\ WF_vars(ServeEmergencySelect(a))
          /\ WF_vars(ServeEmergencyClose(a))

\* One POP3 listener under a long run of temporary Accept errors.
BackoffConfigs ==
    { [pop3 |-> {"tcp4"}, smtp |-> {"tcp6"}, pidfile |-> TRUE],
      [pop3 |-> {"tcp6"}, smtp |-> {"tcp4"}, pidfile |-> FALSE] }

InitBackoff ==
    NoDelivery /\ \E c \in BackoffConfigs : InitWith(c, MaxAccepts, MaxBackoffErrors)

SpecBackoff == InitBackoff /\ [][Next]_vars

\* A message arrives at some clock value and is parsed for some mailbox.
InitDelivery ==
    /\ InitWith([pop3 |-> {}, smtp |-> {"tcp4"}, pidfile |-> FALSE], 0, 0)
    /\ msg \in Messages
    /\ now \in 1..MaxClock
    /\ consumed = 0
    /\ delivery = NotParsed
    /\ source = NotRead

NextDelivery ==
    \/ \E mailbox \in {"alice", "bob"} : ParseDeliveryCall(mailbox)
    \/ SourceRead

SpecDelivery == InitDelivery /\ [][NextDelivery]_vars

\* ------------------------------------------------------------------ claims

\* Main has left the signal loop: shutdown has begun.
LeftSignalLoop == mainPc \in {"timedExit", "drain", "join", "cleanup", "done"}

\* C1: the shutdown channel is closed at most once: no interleaving of
\* emergencyShutdown calls and of signals handled by main reaches a second
\* close of the channel, which is a Go panic.
C1_ClosedAtMostOnce == proc # "panic"

\* C2: once Drain has returned for a POP3 listener, no session of that
\* listener is running and none is about to start.
C2_DrainedIsFinal ==
    \A a \in conf.pop3 :
        Drained(a) => sessions[a] = {} /\ wg[a] = 0 /\ servePc[a] # "startSession"

\* C3: once main has left the signal loop the process eventually terminates,
\* whether or not the sessions finish and Drain returns.
C3_ShutdownTerminates == LeftSignalLoop ~> ~Running

\* C3 witness: the watchdog has forced the exit while main was still blocked
\* in a Drain on a session that has not finished.
C3_Witness ==
    /\ proc = "timedExit"
    /\ mainPc = "drain"
    /\ \E a \in conf.pop3 : sessions[a] # {}

\* C4: a permanent Accept error is decided by the context alone: with the
\* context cancelled the loop returns and leaves the shutdown channel as it
\* is, otherwise it goes into emergencyShutdown; a loop that has returned
\* cleanly saw the context cancelled and did not close the channel, and a
\* loop that has returned from emergencyShutdown leaves the channel closed.
C4_PermanentError ==
    /\ [](\A a \in AddrTypes :
             /\ servePc[a] = "returned" => ctxDone /\ closer # a
             /\ servePc[a] = "done" => shutdownClosed)
    /\ [][\A a \in AddrTypes :
             (servePc[a] = "permanent" /\ servePc'[a] # "permanent") =>
                 IF ctxDone
                   THEN servePc'[a] = "returned" /\ UNCHANGED <<shutdownClosed, closer>>
                   ELSE servePc'[a] = "emergencyShutdown"]_vars

\* C4 witness: after a permanent error with the context not cancelled the loop
\* has closed the shutdown channel itself and returned.
C4_Witness ==
    \E a \in AddrTypes : servePc[a] = "done" /\ closer = a /\ ~ctxDone

\* The listener for address type a is down: socket closed, Start returned, and
\* the accept loop ended.
ListenerDown(a) ==
    /\ listener[a] = "closed"
    /\ startPc[a] = "done"
    /\ servePc[a] \in {"returned", "done"}

C6_SignalShutsDown ==
    /\ (sigsSeen > 0 /\ ~Running) => (shutdownClosed /\ ctxDone /\ LeftSignalLoop)
    /\ ctxDone => shutdownClosed

\* A listener has hit a fatal error: Start or serve has gone into
\* emergencyShutdown.
Fatal(a) ==
    \/ startPc[a] \in {"emergencyShutdown", "closeShutdown"}
    \/ startPc[a] = "done" /\ listener[a] = "nil"
    \/ servePc[a] \in {"emergencyShutdown", "closeShutdown", "done"}

\* C7: after a fatal error of a listener the process does not end before the
\* shutdown channel is closed and main has cancelled the root context and
\* gone on to drain.
C7_FatalShutsDown ==
    \A a \in AddrTypes :
        (Fatal(a) /\ ~Running) => (shutdownClosed /\ ctxDone /\ LeftSignalLoop)

\* Main has returned from Drain for every started server.
AllDrained ==
    mainPc \in {"join", "cleanup", "done"}

\* C8: unless the watchdog fires, a process that has received a signal does
\* not end before the sessions that were open at the signal have completed;
\* and main returns, with exit code 0, only after every Drain and the
\* scanner's Join have returned.
C8_GracefulDrain ==
    /\ (sigsSeen > 0 /\ ~Running /\ proc # "timedExit") =>
           \A a \in AddrTypes : atSignal[a] = {}
    /\ proc = "returned" =>
           /\ ExitCode = 0
           /\ AllDrained
           /\ scannerPc = "done"

\* The delays of the claim, in milliseconds, up to the cap.
BackoffSchedule == <<5, 10, 20, 40, 80, 160, 320, 640>>

\* The delay the claim gives for the n-th consecutive temporary error.
ClaimedDelay(n) ==
    IF n = 0 THEN 0
    ELSE IF n <= Len(BackoffSchedule) THEN BackoffSchedule[n] * Millisecond
    ELSE 1 * Second

\* C9: after n consecutive temporary Accept errors the retry delay is the n-th
\* of 5, 10, 20, ..., 640, 1000, 1000, ... ms, so within [5 ms, 1 s]; after a
\* successful Accept it is back at zero, so that the next error waits 5 ms.
C9_Backoff ==
    \A a \in AddrTypes :
        /\ tempDelay[a] = ClaimedDelay(tempRun[a])
        /\ tempRun[a] > 0 => 5 * Millisecond <= tempDelay[a] /\ tempDelay[a] <= 1 * Second

\* C9 witness: after a successful Accept (sid 1), nine consecutive temporary
\* errors (sid 2 to 10) have brought the delay from 5 ms to the cap of 1 s.
C9_Witness ==
    \E a \in AddrTypes :
        /\ tempRun[a] = 9 /\ sid[a] = 11
        /\ tempDelay[a] = 1 * Second

\* C10: ParseDelivery never fails a delivery: for every message it returns a
\* Delivery with best-effort metadata (the ingest time as date, the empty
\* subject when there is none), never an error and never a panic.
C10_ParseNeverFails ==
    delivery # NotParsed =>
        /\ delivery.tag = "ok"
        /\ delivery.Meta.Date = now
        /\ msg.subject = "absent" => delivery.Meta.Subject = ""

\* C11: for every Delivery that ParseDelivery produces, Size() is the byte
\* length of the raw message.
C11_SizeIsLength ==
    delivery.tag = "ok" => Size(delivery) = Len(RawBytes(msg))

\* C12: for every Delivery that ParseDelivery produces, reading the stream of
\* Source() to its end yields the raw bytes of the message.
C12_SourceIsRaw ==
    source.done => source.bytes = RawBytes(msg)

\* C13: the Date of a Delivery is the clock value at the call, whatever the
\* message's Date header: the same message with any other Date header gets
\* the same Date, and the date of the header is not the Date of the metadata.
C13_DateIsIngestTime ==
    delivery.tag = "ok" =>
        /\ delivery.Meta.Date = now
        /\ \A d \in {m.date : m \in Messages} :
               ParseDelivery([msg EXCEPT !.date = d], delivery.Meta.Mailbox, now).Meta.Date
                   = delivery.Meta.Date
        /\ msg.date # "absent" => delivery.Meta.Date # ParseDate(msg.date)

\* C13 witness: a message with a Date header has been parsed into a Delivery
\* dated with the clock.
C13_Witness ==
    /\ delivery.tag = "ok"
    /\ msg.date # "absent"
    /\ delivery.Meta.Date = now

\* C14: a configuration error ends the process with exit code 1 before a
\* pidfile is written, a scanner created or a listener started; and a process
\* that ends after all drains and the scanner's Join have completed ends with
\* exit code 0.
C14_ExitCodes ==
    /\ proc = "configError" =>
           /\ ExitCode = 1
           /\ pidfile = "absent" /\ scannerPc = "none"
           /\ \A a \in AddrTypes :
                  startPc[a] = "none" /\ servePc[a] = "none" /\ listener[a] = "nil"
    /\ (~Running /\ AllDrained /\ scannerPc = "done") => ExitCode = 0

\* C15: a temporary Accept error never ends the accept loop and never
\* triggers emergency shutdown: the step that takes the error leaves the loop
\* at Accept with the next sid, and leaves the shutdown channel and the
\* process as they are; a loop that has only seen temporary errors and
\* connections is still at Accept.
C15_TemporaryKeepsLoop ==
    [][\A a \in AddrTypes :
          tempRun'[a] = tempRun[a] + 1 =>
              /\ servePc[a] = "accept" /\ servePc'[a] = "accept"
              /\ sid'[a] = sid[a] + 1
              /\ UNCHANGED <<shutdownClosed, closer, proc, ctxDone, listener>>]_vars

\* C15 witness: after a long run of temporary errors the loop is at Accept on
\* its open listener, and the shutdown channel is open.
C15_Witness ==
    \E a \in AddrTypes :
        /\ tempRun[a] = MaxBackoffErrors
        /\ Running /\ servePc[a] = "accept" /\ listener[a] = "open"
        /\ ~shutdownClosed

\* C16: the wait-group of a listener is never negative and counts exactly the
\* accepted connections whose session has not exited: the running sessions
\* and the connection that is accepted and counted but whose session
\* goroutine has not been started yet.
C16_WaitGroupCounts ==
    \A a \in AddrTypes :
        /\ wg[a] >= 0
        /\ wg[a] = Cardinality(sessions[a]) + (IF servePc[a] = "startSession" THEN 1 ELSE 0)

\* C16 witness: a listener has accepted a connection (sid has moved on without
\* any temporary error) and the session has exited: the counter is back at zero.
C16_Witness ==
    \E a \in AddrTypes :
        /\ sid[a] > 1 /\ tempErrors = MaxTempErrors
        /\ sessions[a] = {} /\ wg[a] = 0

\* C17: emergencyShutdown is idempotent when nothing runs between its select
\* and its close: called while the shutdown channel is closed it returns and
\* changes nothing, without a panic; called while the channel is open it goes
\* on to the close, and the close of the still open channel closes it,
\* without a panic.
C17_EmergencyIdempotent ==
    [][\A a \in AddrTypes :
          /\ (startPc[a] = "emergencyShutdown" /\ startPc'[a] # startPc[a]) =>
                 /\ startPc'[a] = IF shutdownClosed THEN "done" ELSE "closeShutdown"
                 /\ UNCHANGED <<shutdownClosed, closer, proc>>
          /\ (servePc[a] = "emergencyShutdown" /\ servePc'[a] # servePc[a]) =>
                 /\ servePc'[a] = IF shutdownClosed THEN "done" ELSE "closeShutdown"
                 /\ UNCHANGED <<shutdownClosed, closer, proc>>
          /\ (startPc[a] = "closeShutdown" /\ startPc'[a] # startPc[a] /\ ~shutdownClosed) =>
                 shutdownClosed' /\ closer' = a /\ proc' = proc /\ startPc'[a] = "done"
          /\ (servePc[a] = "closeShutdown" /\ servePc'[a] # servePc[a] /\ ~shutdownClosed) =>
                 shutdownClosed' /\ closer' = a /\ proc' = proc /\ servePc'[a] = "done"
      ]_vars

\* C17 witness: one listener's emergencyShutdown has closed the open channel,
\* and another listener's emergencyShutdown, called afterwards, has returned
\* without closing it again.
C17_Witness ==
    \E a, b \in AddrTypes :
        /\ a # b /\ Running
        /\ shutdownClosed /\ closer = a
        /\ \/ startPc[b] = "done" /\ listener[b] = "nil"
           \/ servePc[b] = "done"

\* Address resolution or the bind has failed in the Start of the listener for
\* address type a.
StartFailed(a) ==
    /\ listener[a] = "nil"
    /\ startPc[a] \in {"emergencyShutdown", "closeShutdown", "done"}

\* C18: when address resolution or the bind fails, Start goes into
\* emergencyShutdown and returns without waiting for the context: no accept
\* loop is started, no connection is accepted, the wait-group stays at zero
\* and Drain on that listener does not block; once Start has returned the
\* shutdown channel is closed.  Start waits for the context only after a
\* successful bind.
C18_FailedStart ==
    \A a \in AddrTypes :
        /\ StartFailed(a) =>
               /\ servePc[a] = "none"
               /\ sid[a] = 1 /\ sessions[a] = {}
               /\ wg[a] = 0 /\ Drain(a)
               /\ startPc[a] = "done" => shutdownClosed
        /\ startPc[a] = "wait" => listener[a] # "nil" /\ servePc[a] # "none"

\* C18 witness: the bind of a configured listener has failed, Start has
\* returned, and main has since returned from the Drain of that listener.
C18_Witness ==
    \E a \in conf.pop3 :
        /\ StartFailed(a) /\ startPc[a] = "done"
        /\ Running /\ Drained(a)

\* C19: a graceful shutdown never turns into an emergency shutdown.  The
\* listening socket is closed only with the context cancelled, and the context
\* stays cancelled; so the accept loop sees the Accept error of the closed
\* socket with the context cancelled and returns from the permanent-error
\* branch without touching the shutdown channel.  The loop goes into
\* emergencyShutdown only on an Accept error of the open socket with the
\* context not cancelled, and a POP3 server that closed the shutdown channel
\* had such an error or a failed bind.
C19_GracefulStaysGraceful ==
    /\ [](\A a \in AddrTypes :
             /\ listener[a] = "closed" => ctxDone
             /\ closer = a => (servePc[a] = "done" \/ StartFailed(a)))
    /\ [][\A a \in AddrTypes :
             /\ ctxDone => ctxDone'
             /\ (servePc[a] = "accept" /\ listener[a] = "closed" /\ servePc'[a] # "accept") =>
                    ctxDone /\ servePc'[a] = "permanent"
             /\ (servePc[a] = "permanent" /\ listener[a] = "closed" /\ servePc'[a] # "permanent") =>
                    servePc'[a] = "returned" /\ UNCHANGED <<shutdownClosed, closer, proc>>
             /\ (servePc[a] # "emergencyShutdown" /\ servePc'[a] = "emergencyShutdown") =>
                    listener[a] = "open" /\ ~ctxDone
       ]_vars

\* C19 witness: after a signal, with no temporary error, a listener's socket
\* is closed and its accept loop has returned; the shutdown channel was closed
\* by main alone.
C19_Witness ==
    \E a \in AddrTypes :
        /\ Running /\ sigsSeen > 0 /\ closer = "main"
        /\ tempErrors = MaxTempErrors
        /\ listener[a] = "closed" /\ servePc[a] = "returned"

\* C20: the forced-exit watchdog runs only during shutdown: timedExit is
\* started only after main has cancelled the root context and left the signal
\* loop, and the process is ended by the watchdog only in states where the
\* shutdown channel is closed and the root context is cancelled.
C20_WatchdogOnlyInShutdown ==
    /\ timedExitPc # "none" => shutdownClosed /\ ctxDone /\ LeftSignalLoop
    /\ mainPc \in {"config", "openLog", "pidfile", "storage", "scanner", "servers",
                    "signalLoop", "timedExit"} => timedExitPc = "none"
    /\ proc = "timedExit" => shutdownClosed /\ ctxDone /\ timedExitPc = "done"

\* C20 witness: the watchdog has ended the process after a listener's
\* emergencyShutdown closed the shutdown channel and main cancelled the
\* context.
C20_Witness ==
    /\ proc = "timedExit"
    /\ closer \in AddrTypes
    /\ shutdownClosed /\ ctxDone

====
